---- MODULE Spec2Model ----
(***************************************************************************)
(* Model of src/main.py (SecurityCamera): the capture loop running in the  *)
(* monitoring thread, the start/stop recording state machine, the save     *)
(* threads spawned by stop_recording, and the main thread (start,          *)
(* KeyboardInterrupt -> cleanup, process exit).                            *)
(*                                                                         *)
(* Time: time.time() is modelled as an integer clock whose unit is one     *)
(* detection interval (0.5 s, line 252), so one second is                  *)
(* 2 * DetectionInterval clock units.  The clock advances by the Tick      *)
(* action, at any moment, between any two steps of any thread.             *)
(*                                                                         *)
(* Frames: the n-th frame successfully read from the camera is modelled    *)
(* by the number n (frames_read counts the successful reads).              *)
(***************************************************************************)
EXTENDS Integers, Sequences, FiniteSets, TLC

\* ------------------------------------------------------------------ bounds
MaxTime == 6
MaxFrames == 4
MaxBufferSeconds == 1
MaxRecordingAfterSeconds == 1

\* ------------------------------------------------------- program constants
\* line 61: self.fps = 30
DefaultFps == 30
\* line 252: detection_interval = 0.5, the unit of the clock
DetectionInterval == 1

\* line 95: int(cap.get(CAP_PROP_FPS)), what the device reports
ActualFpsChoices == {-1, 0, 1, 2}

\* a number of seconds in clock units
Seconds(s) == s * 2 * DetectionInterval

\* line 69: recording_start_time = None
None == -1

VARIABLES
    clock,                    \* time.time()
    pc_main,                  \* position of the main thread in start()
    buffer_seconds,           \* self.buffer_seconds (seconds)
    recording_after_seconds,  \* self.recording_after_seconds (seconds)
    fps,                      \* self.fps
    buffer_size,              \* maxlen of self.frame_buffer
    frame_buffer,             \* self.frame_buffer
    cap,                      \* self.cap: "none", "open", "disconnected",
                              \* "released"
    model,                    \* self.model is not None
    running,                  \* self.running
    is_recording,             \* self.is_recording
    recording_start_time,     \* self.recording_start_time
    person_detected,          \* self.person_detected
    last_detection_time,      \* self.last_detection_time
    loop_pc,                  \* position of the monitoring thread
    loop_last_detection_time, \* local last_detection_time of monitoring_loop
    current_time,             \* local current_time of monitoring_loop
    detected,                 \* local person_detected of monitoring_loop
    sample_outcome,           \* history: what the detector did on this tick
    sleep_until,              \* wake-up time of the time.sleep in progress
    frames_read,              \* number of successful cap.read() calls
    trigger_frame,            \* history: frame on which the session started
    saves,                    \* the save_video threads, in start order
    files                     \* destination path -> "absent"/"partial"/"complete"

vars == <<clock, pc_main, buffer_seconds, recording_after_seconds, fps,
          buffer_size, frame_buffer, cap, model, running, is_recording,
          recording_start_time, person_detected, last_detection_time,
          loop_pc, loop_last_detection_time, current_time, detected,
          sample_outcome, sleep_until, frames_read, trigger_frame, saves, files>>

config_vars == <<buffer_seconds, recording_after_seconds>>
camera_vars == <<fps, buffer_size, cap, model>>
session_vars == <<is_recording, recording_start_time, person_detected,
                  last_detection_time, trigger_frame>>
loop_vars == <<loop_pc, loop_last_detection_time, current_time, detected,
               sample_outcome,
               sleep_until, frames_read, frame_buffer>>

\* ------------------------------------------------------------- pure helpers
\* lines 64, 105: buffer_size = self.fps * self.buffer_seconds
BufferSize(f, secs) == f * secs

\* deque(maxlen=n).append(x) with the oldest entry dropped when full
DequeAppendNoEvict(buf, maxlen, x) == Append(buf, x)

DequeAppend(buf, maxlen, x) ==
    IF maxlen = 0 THEN <<>>
    ELSE IF Len(buf) >= maxlen THEN Append(Tail(buf), x)
    ELSE Append(buf, x)

\* lines 333-334: the file name carries the time at a resolution of one second
Filename(t) == t \div (2 * DetectionInterval)

Filenames == 0..Filename(MaxTime + 1)

\* line 297: time.sleep(1.0 / self.fps), in whole clock units
SleepTicks(f) == Seconds(1) \div f


DetectPersonErrorAsPresent(outcome) ==
    IF ~model THEN FALSE
    ELSE outcome \in {"present", "error"}

DetectPersonNoModelCheck(outcome) == outcome = "present"

\* lines 149-168: detect_person; outcome is what the inference does with this
\* frame: "present", "absent", or "error" (an exception inside the try)
DetectPerson(outcome) ==
    IF ~model THEN FALSE
    ELSE IF outcome = "error" THEN FALSE
    ELSE outcome = "present"

\* lines 151-152: without a model no inference runs and nothing can fail
Outcome(outcome) == IF ~model THEN "no_model" ELSE outcome

DetectorOutcomes == {"present", "absent", "error"}

SampleDueAlways == TRUE

\* line 272: current_time - last_detection_time >= detection_interval
SampleDue == current_time - loop_last_detection_time >= DetectionInterval

\* lines 286-287: time_since_detection >= self.recording_after_seconds
ShouldStopNoDebounce == TRUE

ShouldStopStrict ==
    current_time - last_detection_time > Seconds(recording_after_seconds)

ShouldStop ==
    current_time - last_detection_time >= Seconds(recording_after_seconds)

\* ------------------------------------------------------------------- Init
\* the state after SecurityCamera.__init__ (lines 49-77), before start()
Init ==
    /\ clock = DetectionInterval
    /\ pc_main = "start"
    /\ buffer_seconds \in 1..MaxBufferSeconds
    /\ recording_after_seconds \in 1..MaxRecordingAfterSeconds
    /\ fps = DefaultFps
    /\ buffer_size = BufferSize(DefaultFps, buffer_seconds)
    /\ frame_buffer = <<>>
    /\ cap = "none"
    /\ model = FALSE
    /\ running = FALSE
    /\ is_recording = FALSE
    /\ recording_start_time = None
    /\ person_detected = FALSE
    /\ last_detection_time = 0
    /\ loop_pc = "idle"
    /\ loop_last_detection_time = 0
    /\ current_time = 0
    /\ detected = FALSE
    /\ sample_outcome = "none"
    /\ sleep_until = 0
    /\ frames_read = 0
    /\ trigger_frame = 0
    /\ saves = <<>>
    /\ files = [f \in Filenames |-> "absent"]

\* ------------------------------------------------------------ main thread
InitializeCameraStaleBuffer(actual_fps) ==
    /\ cap' = "open"
    /\ IF actual_fps > 0
       THEN /\ fps' = actual_fps
            /\ frame_buffer' = <<>>
            /\ UNCHANGED buffer_size
       ELSE UNCHANGED <<fps, buffer_size, frame_buffer>>

\* lines 79-106: initialize_camera, the device having opened
InitializeCamera(actual_fps) ==
    /\ cap' = "open"
    /\ IF actual_fps > 0
       THEN /\ fps' = actual_fps
            /\ buffer_size' = BufferSize(actual_fps, buffer_seconds)
            /\ frame_buffer' = <<>>
       ELSE UNCHANGED <<fps, buffer_size, frame_buffer>>

\* lines 346-353: cleanup
Cleanup ==
    /\ running' = FALSE
    /\ cap' = IF cap = "none" THEN "none" ELSE "released"

\* lines 355-378 and 397-400: start() up to the start of the monitoring
\* thread, or the exception path when the camera cannot be opened
Start ==
    /\ pc_main = "start"
    /\ \E opened \in BOOLEAN, actual_fps \in ActualFpsChoices, yolo \in BOOLEAN :
         IF opened
         THEN /\ InitializeCamera(actual_fps)
              /\ model' = yolo
              /\ running' = TRUE
              /\ loop_pc' = "check"
              /\ pc_main' = "waiting"
         ELSE /\ running' = FALSE
              /\ cap' = "released"
              /\ pc_main' = "stopped"
              /\ UNCHANGED <<fps, buffer_size, frame_buffer, model, loop_pc>>
    /\ UNCHANGED <<clock, config_vars, session_vars, loop_last_detection_time,
                   current_time, detected, sample_outcome, sleep_until,
                   frames_read, saves,
                   files>>

\* lines 389-395: KeyboardInterrupt while the main thread waits, then cleanup
KeyboardInterrupt ==
    /\ pc_main = "waiting"
    /\ Cleanup
    /\ pc_main' = "stopped"
    /\ UNCHANGED <<clock, config_vars, fps, buffer_size, model, session_vars,
                   loop_vars, saves, files>>

\* lines 400-402, 424, 428: start() returns and sys.exit ends the process;
\* the monitoring thread and the save threads are daemon threads (lines 342,
\* 377) and end with it, wherever they are
Exit ==
    /\ pc_main = "stopped"
    /\ pc_main' = "exited"
    /\ UNCHANGED <<clock, config_vars, camera_vars, running, session_vars,
                   loop_vars, saves, files>>

Alive == pc_main # "exited"

\* the device behind self.cap goes away for good (unplugged): from now on
\* cap.read() returns ret = False (line 259)
Disconnect ==
    /\ Alive
    /\ cap = "open"
    /\ loop_pc = "read"
    /\ cap' = "disconnected"
    /\ UNCHANGED <<clock, pc_main, config_vars, fps, buffer_size, model,
                   running, session_vars, loop_vars, saves, files>>

\* the passing of time
Tick ==
    /\ Alive
    /\ clock < MaxTime
    /\ clock' = clock + 1
    /\ UNCHANGED <<pc_main, config_vars, camera_vars, running, session_vars,
                   loop_vars, saves, files>>


\* ------------------------------------------------------- recording control
\* lines 311-319: start_recording
StartRecordingTickTime ==
    IF is_recording
    THEN UNCHANGED <<is_recording, recording_start_time, trigger_frame>>
    ELSE /\ is_recording' = TRUE
         /\ recording_start_time' = current_time
         /\ trigger_frame' = frames_read

StartRecording ==
    IF is_recording
    THEN UNCHANGED <<is_recording, recording_start_time, trigger_frame>>
    ELSE /\ is_recording' = TRUE
         /\ recording_start_time' = clock
         /\ trigger_frame' = frames_read

\* line 330: frames_to_save = list(self.frame_buffer), a copy of the contents
Snapshot(buf) == buf

\* lines 339-344: threading.Thread(target=self.save_video, args=(frames,
\* filename), daemon=True).start(): a new thread at the top of save_video;
\* trigger, stop_frame and stop_clock are history fields
NewSaveInline(frames, filename) ==
    [frames |-> frames, filename |-> filename, pc |-> "ok",
     written |-> frames, trigger |-> trigger_frame, stop_frame |-> frames_read,
     stop_clock |-> clock]

NewSave(frames, filename) ==
    [frames |-> frames, filename |-> filename, pc |-> "start",
     written |-> <<>>, trigger |-> trigger_frame, stop_frame |-> frames_read,
     stop_clock |-> clock]

StopRecordingNoReset ==
    IF ~is_recording
    THEN UNCHANGED <<is_recording, person_detected, saves>>
    ELSE /\ UNCHANGED is_recording
         /\ person_detected' = FALSE
         /\ saves' = Append(saves, NewSave(Snapshot(frame_buffer), Filename(clock)))

\* lines 321-344: stop_recording
StopRecording ==
    IF ~is_recording
    THEN UNCHANGED <<is_recording, person_detected, saves>>
    ELSE /\ is_recording' = FALSE
         /\ person_detected' = FALSE
         /\ saves' = Append(saves, NewSave(Snapshot(frame_buffer), Filename(clock)))

\* -------------------------------------------------------- monitoring thread
\* line 297: time.sleep(1.0 / self.fps) at the end of an iteration, after
\* which the loop is back at line 258; the locals current_time and
\* person_detected are dead until the next iteration assigns them and are
\* reset here (lines 290-294, the status line, are left out)
EndOfIteration ==
    /\ current_time' = 0
    /\ detected' = FALSE
    /\ sample_outcome' = "none"
    /\ loop_pc' = "check"
    /\ sleep_until' = IF SleepTicks(fps) = 0 THEN 0 ELSE clock + SleepTicks(fps)

\* line 258: while self.running, once the sleep of the previous iteration
\* (if any) is over
LoopCheck ==
    /\ Alive
    /\ loop_pc = "check"
    /\ clock >= sleep_until
    /\ loop_pc' = IF running THEN "read" ELSE "exit"
    /\ sleep_until' = 0
    /\ UNCHANGED <<clock, pc_main, config_vars, camera_vars, running,
                   session_vars, loop_last_detection_time, current_time,
                   detected, sample_outcome, frames_read, frame_buffer, saves,
                   files>>
LoopReadAppendOnFail ==
    /\ Alive
    /\ loop_pc = "read"
    /\ \E ret \in BOOLEAN :
         /\ ret => (cap = "open" /\ frames_read < MaxFrames)
         /\ IF ret
            THEN /\ frames_read' = frames_read + 1
                 /\ frame_buffer' =
                        DequeAppend(frame_buffer, buffer_size, frames_read + 1)
                 /\ current_time' = clock
                 /\ loop_pc' = "detect"
            ELSE /\ loop_pc' = "check"
                 /\ frame_buffer' =
                        DequeAppend(frame_buffer, buffer_size, frames_read)
                 /\ UNCHANGED <<frames_read, current_time>>
    /\ UNCHANGED <<clock, pc_main, config_vars, camera_vars, running,
                   session_vars, loop_last_detection_time, detected,
                   sample_outcome,
                   sleep_until, saves, files>>

\* lines 259-271: cap.read(); on failure sleep 0.1 s (below the resolution of
\* the clock) and continue; on success append the frame and read the time.
\* A released, unopened or disconnected capture returns ret = False.
LoopRead ==
    /\ Alive
    /\ loop_pc = "read"
    /\ \E ret \in BOOLEAN :
         /\ ret => (cap = "open" /\ frames_read < MaxFrames)
         /\ IF ret
            THEN /\ frames_read' = frames_read + 1
                 /\ frame_buffer' =
                        DequeAppend(frame_buffer, buffer_size, frames_read + 1)
                 /\ current_time' = clock
                 /\ loop_pc' = "detect"
            ELSE /\ loop_pc' = "check"
                 /\ UNCHANGED <<frames_read, frame_buffer, current_time>>
    /\ UNCHANGED <<clock, pc_main, config_vars, camera_vars, running,
                   session_vars, loop_last_detection_time, detected,
                   sample_outcome,
                   sleep_until, saves, files>>

\* lines 272-274: the detector is sampled when the interval has elapsed
LoopDetect ==
    /\ Alive
    /\ loop_pc = "detect"
    /\ IF SampleDue
       THEN /\ \E outcome \in DetectorOutcomes :
                 /\ detected' = DetectPerson(outcome)
                 /\ sample_outcome' = Outcome(outcome)
            /\ loop_last_detection_time' = current_time
            /\ loop_pc' = "decide"
            /\ UNCHANGED <<current_time, sleep_until>>
       ELSE /\ EndOfIteration
            /\ UNCHANGED loop_last_detection_time
    /\ UNCHANGED <<clock, pc_main, config_vars, camera_vars, running,
                   session_vars, frames_read, frame_buffer, saves, files>>

\* lines 276-288: the sample drives the recording state machine
LoopDecide ==
    /\ Alive
    /\ loop_pc = "decide"
    /\ IF detected
       THEN /\ person_detected' = TRUE
            /\ last_detection_time' = current_time
            /\ IF ~is_recording
               THEN StartRecording
               ELSE UNCHANGED <<is_recording, recording_start_time,
                                trigger_frame>>
            /\ UNCHANGED saves
       ELSE IF is_recording /\ ~detected
            THEN IF ShouldStop
                 THEN /\ StopRecording
                      /\ UNCHANGED <<recording_start_time,
                                     last_detection_time, trigger_frame>>
                 ELSE UNCHANGED <<session_vars, saves>>
            ELSE UNCHANGED <<session_vars, saves>>
    /\ EndOfIteration
    /\ UNCHANGED <<clock, pc_main, config_vars, camera_vars, running,
                   loop_last_detection_time, frames_read, frame_buffer, files>>

MonitoringLoop == LoopCheck \/ LoopRead \/ LoopDetect \/ LoopDecide

\* ------------------------------------------------------------ save threads
\* line 227: for frame in frames, the list the thread was given
SavedFramesLive(s) == frame_buffer

SavedFrames(s) == s.frames

SaveOpenOutcomes == {"mkdir_error", "not_opened", "not_opened_file_left", "opened"}

\* lines 197-223: save_video up to the opening of the writer.  The writer
\* creates (or truncates) the file at video_path when it opens; a writer that
\* fails to open may have created the file already.
SaveOpen(i) ==
    /\ Alive
    /\ i \in 1..Len(saves)
    /\ saves[i].pc = "start"
    /\ LET s == saves[i] IN
       IF Len(SavedFrames(s)) = 0
       THEN /\ saves' = [saves EXCEPT ![i].pc = "failed_early"]
            /\ UNCHANGED files
       ELSE \E outcome \in SaveOpenOutcomes :
              CASE outcome = "mkdir_error" ->
                     /\ saves' = [saves EXCEPT ![i].pc = "failed_early"]
                     /\ UNCHANGED files
                [] outcome = "not_opened" ->
                     /\ saves' = [saves EXCEPT ![i].pc = "failed_early"]
                     /\ UNCHANGED files
                [] outcome = "not_opened_file_left" ->
                     /\ saves' = [saves EXCEPT ![i].pc = "failed"]
                     /\ files' = [files EXCEPT ![s.filename] = "partial"]
                [] outcome = "opened" ->
                     /\ saves' = [saves EXCEPT ![i].pc = "writing"]
                     /\ files' = [files EXCEPT ![s.filename] = "partial"]
    /\ UNCHANGED <<clock, pc_main, config_vars, camera_vars, running,
                   session_vars, loop_vars>>

SaveWriteOutcomes == {"ok", "error_removed", "error_remove_failed"}

\* lines 225-248: the frames are written, the writer released and the size
\* read; an exception on the way releases the writer and tries os.remove,
\* whose own failure is swallowed (lines 244-247)
SaveWrite(i) ==
    /\ Alive
    /\ i \in 1..Len(saves)
    /\ saves[i].pc = "writing"
    /\ LET s == saves[i] IN
       \E outcome \in SaveWriteOutcomes, k \in 0..Len(SavedFrames(s)) :
         CASE outcome = "ok" ->
                /\ k = Len(SavedFrames(s))
                /\ IF files[s.filename] = "absent"
                   THEN /\ saves' = [saves EXCEPT ![i].pc = "failed",
                                                  ![i].written = SavedFrames(s)]
                        /\ UNCHANGED files
                   ELSE /\ saves' = [saves EXCEPT ![i].pc = "ok",
                                                  ![i].written = SavedFrames(s)]
                        /\ files' = [files EXCEPT ![s.filename] = "complete"]
           [] outcome = "error_removed" ->
                /\ saves' = [saves EXCEPT ![i].pc = "failed",
                               ![i].written = SubSeq(SavedFrames(s), 1, k)]
                /\ files' = [files EXCEPT ![s.filename] = "absent"]
           [] outcome = "error_remove_failed" ->
                /\ saves' = [saves EXCEPT ![i].pc = "failed",
                               ![i].written = SubSeq(SavedFrames(s), 1, k)]
                /\ UNCHANGED files
    /\ UNCHANGED <<clock, pc_main, config_vars, camera_vars, running,
                   session_vars, loop_vars>>

SaveVideo == \E i \in 1..Len(saves) : SaveOpen(i) \/ SaveWrite(i)

\* ------------------------------------------------------------ specification
Next ==
    \/ Start
    \/ KeyboardInterrupt
    \/ Exit
    \/ Tick
    \/ Disconnect
    \/ LoopCheck
    \/ LoopRead
    \/ LoopDetect
    \/ LoopDecide
    \/ \E i \in 1..Len(saves) : SaveOpen(i)
    \/ \E i \in 1..Len(saves) : SaveWrite(i)

Spec == Init /\ [][Next]_vars

\* a cap.read() that returns a frame
LoopReadOk == LoopRead /\ frames_read' = frames_read + 1

\* a step of the monitoring thread
LoopStep == LoopCheck \/ LoopRead \/ LoopDetect \/ LoopDecide

\* main() constructs a single camera whose two durations are equal (lines
\* 417-422); the smallest such pair is taken
LiveInit ==
    /\ Init
    /\ buffer_seconds = 1
    /\ recording_after_seconds = 1

\* The monitoring thread is scheduled as long as the process lives, time
\* passes, and a source that can deliver a frame does deliver one sooner or
\* later.  The main thread and the save threads get no fairness.
LiveSpec ==
    /\ LiveInit
    /\ [][Next]_vars
    /\ WF_vars(Tick)
    /\ WF_vars(LoopStep)
    /\ SF_vars(LoopReadOk)


\* ------------------------------------------------------ claim vocabulary
\* a step that ends a tick which carried a detection sample
DecideStep == loop_pc = "decide" /\ loop_pc' = "check"

\* the time since the last "present" sample, as of the tick's time
Elapsed == current_time - last_detection_time

PostEvent == Seconds(recording_after_seconds)

InFlight(s) == s.pc \in {"start", "writing"}

Min(a, b) == IF a < b THEN a ELSE b

\* the last min(n, c) of the frames 1..n, in order of capture
LastFrames(n, c) == [i \in 1..Min(n, c) |-> n - Min(n, c) + i]

IsPrefix(a, b) == Len(a) <= Len(b) /\ a = SubSeq(b, 1, Len(a))

Range(q) == {q[i] : i \in 1..Len(q)}

\* ------------------------------------------------------------------- C1
\* C1: while Recording, a step moves the controller to Idle if and only if
\* it ends a tick whose detection sample reported no person and whose
\* current_time is at least recording_after_seconds past last_detection_time;
\* ticks without a sample, and every other step, never end the session.
C1_StopIffDebounced ==
    [][is_recording =>
         ((~is_recording') <=>
            (DecideStep /\ ~detected /\ Elapsed >= PostEvent))]_vars

\* a session was stopped by an absent sample
C1_Witness ==
    /\ ~is_recording
    /\ Len(saves) >= 1
    /\ loop_last_detection_time >= last_detection_time + PostEvent

\* ------------------------------------------------------------------- C2
\* C2 as stated: when the controller is Idle and the sample reports a person,
\* the tick ends in Recording with recording_start_time and
\* last_detection_time both equal to the tick's time.
C2_StartAtTickTime ==
    [][(DecideStep /\ ~is_recording /\ detected) =>
         /\ is_recording'
         /\ last_detection_time' = current_time
         /\ recording_start_time' = current_time]_vars

\* C2 amended: when the controller is Idle and the sample reports a person,
\* the tick ends in Recording with last_detection_time equal to the tick's
\* time and recording_start_time equal to the clock as read inside
\* start_recording, which is not before the tick's time.
C2_StartSameTick ==
    [][(DecideStep /\ ~is_recording /\ detected) =>
         /\ is_recording'
         /\ last_detection_time' = current_time
         /\ recording_start_time' = clock
         /\ recording_start_time' >= last_detection_time']_vars

\* a session that started on a tick during which the clock advanced
C2_Witness ==
    /\ is_recording
    /\ recording_start_time > last_detection_time

\* ------------------------------------------------------------------- C3
\* C3: while Recording, every step other than the end of a tick whose sample
\* is absent at least recording_after_seconds after the latest present sample
\* keeps the controller Recording, starts no save, and keeps
\* recording_start_time; a present sample sets last_detection_time to the
\* tick's time and an absent one leaves it.
C3_NoFlapping ==
    [][(is_recording /\ ~(DecideStep /\ ~detected /\ Elapsed >= PostEvent)) =>
         /\ is_recording'
         /\ Len(saves') = Len(saves)
         /\ recording_start_time' = recording_start_time
         /\ trigger_frame' = trigger_frame
         /\ (DecideStep /\ detected) => last_detection_time' = current_time
         /\ ~(DecideStep /\ detected) =>
                last_detection_time' = last_detection_time]_vars

\* a session refreshed by a later present sample, then given an absent sample
\* inside the post-event window, and still Recording
C3_Witness ==
    /\ is_recording
    /\ loop_pc = "check"
    /\ last_detection_time > recording_start_time
    /\ loop_last_detection_time > last_detection_time

\* ------------------------------------------------------------------- C4
\* C4: every artifact handed to a save thread contains every frame from the
\* one on which the person was first detected up to the one captured last
\* before the stop (the part of the claimed window that starts at t0).
C4_ArtifactHoldsSession ==
    \A i \in 1..Len(saves) :
        \A f \in saves[i].trigger..saves[i].stop_frame :
            f \in Range(saves[i].frames)

\* ------------------------------------------------------------------- C5
\* C5: after N appends the frame buffer holds exactly the last
\* min(N, buffer_size) appended frames in insertion order, so its length never
\* exceeds buffer_size, and so does every snapshot taken of it.
C5_BufferIsLastFrames ==
    /\ frame_buffer = LastFrames(frames_read, buffer_size)
    /\ Len(frame_buffer) <= buffer_size
    /\ \A i \in 1..Len(saves) :
         saves[i].frames = LastFrames(saves[i].stop_frame, buffer_size)

\* frames have been evicted from a full buffer
C5_Witness ==
    /\ frames_read > buffer_size + 1
    /\ Len(frame_buffer) = buffer_size
    /\ buffer_size > 1

\* ------------------------------------------------------------------- C6
\* C6: at most one (the default K) save_video execution is in flight.
C6_AtMostOneSave ==
    Cardinality({i \in 1..Len(saves) : InFlight(saves[i])}) <= 1

\* ------------------------------------------------------------------- C7
\* C7: what a save thread writes is a prefix of (and on success all of) the
\* frames the buffer held at the stop transition, whatever was appended to or
\* evicted from the live buffer since; and a step of a save thread leaves the
\* live buffer as it is.
C7_ArtifactFixedInv ==
    \A i \in 1..Len(saves) :
        /\ IsPrefix(saves[i].written,
                    LastFrames(saves[i].stop_frame, buffer_size))
        /\ saves[i].pc = "ok" =>
             saves[i].written = LastFrames(saves[i].stop_frame, buffer_size)

C7_ArtifactFixed ==
    /\ []C7_ArtifactFixedInv
    /\ [][(Len(saves') = Len(saves) /\ saves' # saves) =>
            frame_buffer' = frame_buffer]_vars

\* a save completed after the live buffer had moved on from its snapshot
C7_Witness ==
    \E i \in 1..Len(saves) :
        /\ saves[i].pc = "ok"
        /\ saves[i].written # <<>>
        /\ frames_read > saves[i].stop_frame
        /\ frame_buffer # saves[i].frames

\* ------------------------------------------------------------------- C8
\* C8: stop_recording returns with the save thread not yet run and the loop
\* at the end of its iteration; and while a save is in flight the monitoring
\* thread always has a next step, except during its own sleep.
C8_LoopNotBlockedInv ==
    (/\ Alive
     /\ loop_pc \in {"check", "read", "detect", "decide"}
     /\ \E i \in 1..Len(saves) : InFlight(saves[i]))
    => (ENABLED MonitoringLoop \/ (loop_pc = "check" /\ clock < sleep_until))

C8_HandOffDoesNotBlock ==
    /\ []C8_LoopNotBlockedInv
    /\ [][Len(saves') > Len(saves) =>
            /\ InFlight(saves'[Len(saves')])
            /\ saves'[Len(saves')].written = <<>>
            /\ loop_pc' = "check"]_vars

\* a new session started, on a frame read after the stop, while the save of
\* the previous session is still in flight
C8_Witness ==
    \E i \in 1..Len(saves) :
        /\ InFlight(saves[i])
        /\ is_recording
        /\ trigger_frame > saves[i].stop_frame

\* ------------------------------------------------------------------- C9
\* C9: a save that failed after the destination file may have been created
\* leaves no file at the destination path.
C9_FailedSaveLeavesNoFile ==
    \A i \in 1..Len(saves) :
        saves[i].pc = "failed" => files[saves[i].filename] = "absent"

\* ------------------------------------------------------------------ C10
\* C10: once cleanup has run, no frame is read from the source, no
\* Idle -> Recording transition happens and no save thread is started.
C10_NothingAfterCleanup ==
    [][pc_main = "stopped" =>
         /\ frames_read' = frames_read
         /\ ~(~is_recording /\ is_recording')
         /\ Len(saves') = Len(saves)]_vars


\* ------------------------------------------------------------------ C11
\* C11: when the process has ended, no save that was in flight has left a
\* partially written file at its destination path: it ran to completion or
\* its output was removed.
C11_NoPartialFileAtExit ==
    pc_main = "exited" =>
        \A i \in 1..Len(saves) :
            InFlight(saves[i]) => files[saves[i].filename] # "partial"


\* ------------------------------------------------------------------ C12
\* the time from which an absent sample ends the session
Deadline == last_detection_time + PostEvent

\* C12 (when it stops): a session never survives a detection sample taken at
\* or after last_detection_time + recording_after_seconds that reports no
\* person, and the stop produces exactly one artifact.
C12_StopsAtFirstLateSample ==
    (is_recording /\ loop_pc \in {"check", "read", "detect", "exit"})
        => loop_last_detection_time < Deadline

C12_OneArtifactPerStop ==
    [][(is_recording /\ ~is_recording') =>
          Len(saves') = Len(saves) + 1]_vars

\* C12 (that it stops): a session whose post-event time has run out, with the
\* loop between two iterations and the source able to deliver a frame,
\* eventually stops, unless a sample reports a person again, the source goes
\* away or the system is shut down.  The last two conjuncts keep the next iteration inside the
\* horizon of the model (the sleep in progress ends by MaxTime and a frame is
\* left to read).
C12_Pending ==
    /\ is_recording
    /\ clock >= Deadline
    /\ loop_pc \in {"check", "read"}
    /\ Alive /\ running /\ cap = "open"
    /\ sleep_until <= MaxTime
    /\ frames_read < MaxFrames

C12_Settled ==
    \/ ~is_recording
    \/ ~Alive \/ ~running \/ cap # "open"
    \/ loop_pc = "decide" /\ detected

C12_EventuallyStops ==
    /\ []C12_StopsAtFirstLateSample
    /\ C12_OneArtifactPerStop
    /\ (C12_Pending ~> C12_Settled)

\* a session stopped by the first sample at its deadline, after an earlier
\* absent sample that did not stop it
C12_Witness ==
    /\ ~is_recording
    /\ Len(saves) = 1
    /\ frames_read >= 3
    /\ loop_last_detection_time = Deadline
    /\ saves[1].stop_frame >= saves[1].trigger + 2


\* ------------------------------------------------------------------ C13
\* C13: a sample on which the detector raised is a "no person" sample: the
\* tick ends normally with the loop back at its top, an Idle controller stays
\* Idle with its session state untouched, and a Recording controller stops if
\* and only if the post-event time has run out, and never starts a session.
C13_ErrorIsAbsentInv ==
    sample_outcome = "error" => (loop_pc = "decide" /\ ~detected)

C13_ErrorIsAbsent ==
    /\ []C13_ErrorIsAbsentInv
    /\ [][(sample_outcome = "error" /\ loop_pc' # loop_pc) =>
            /\ loop_pc' = "check"
            /\ ~is_recording =>
                 /\ ~is_recording'
                 /\ UNCHANGED <<session_vars, saves>>
            /\ is_recording =>
                 /\ is_recording' <=> ~(Elapsed >= PostEvent)
                 /\ UNCHANGED <<recording_start_time, last_detection_time>>]_vars

\* a detector failure on the sample that ends a session
C13_Witness ==
    /\ sample_outcome = "error"
    /\ is_recording
    /\ Elapsed >= PostEvent

C15_Terminated ==
    /\ loop_pc = "exit" \/ ~Alive
    /\ pc_main \in {"stopped", "exited"}
    /\ ~is_recording

C15_DisconnectTerminates ==
    (cap = "disconnected") ~> C15_Terminated

\* ------------------------------------------------------------------ C16
\* the step that ends the sampling decision of a tick (line 272)
C16_GateStep == loop_pc = "detect" /\ loop_pc' # "detect"

\* C16: the detector is invoked on a tick only if the tick's time is at least
\* detection_interval after the last sample time, which every invocation sets to
\* the tick's time (so consecutive invocations are at least detection_interval
\* apart); a skipped tick leaves the last sample time, the recording state,
\* recording_start_time and last_detection_time as they are and starts no save;
\* and the detector is invoked nowhere else.
C16_SamplingGate ==
    [][/\ C16_GateStep =>
            IF loop_pc' = "decide"
            THEN /\ current_time - loop_last_detection_time >= DetectionInterval
                 /\ loop_last_detection_time' = current_time
                 /\ sample_outcome' # "none"
            ELSE /\ current_time - loop_last_detection_time < DetectionInterval
                 /\ sample_outcome' = "none"
                 /\ UNCHANGED <<loop_last_detection_time, session_vars, saves>>
       /\ (sample_outcome' \notin {sample_outcome, "none"}) =>
            (C16_GateStep /\ loop_pc' = "decide")
       /\ loop_last_detection_time' # loop_last_detection_time =>
            (C16_GateStep /\ loop_pc' = "decide")]_vars

\* the third frame is being sampled at the second sample time: one of the two
\* frames before it was skipped
C16_Witness ==
    /\ loop_pc = "decide"
    /\ frames_read = 3
    /\ current_time = 2 * DetectionInterval
    /\ loop_last_detection_time = current_time

\* ------------------------------------------------------------------ C17
\* C17: a step is a Recording->Idle transition exactly when it starts one more
\* save_video execution, which is handed the artifact created by that
\* transition; no step starts more than one, none changes the artifact of an
\* execution already started, and stop_recording in Idle (line 323; its only
\* call site, line 288, is reached while recording) changes nothing.  Hence
\* the executions started always number the Recording->Idle transitions.
C17_OneSavePerStop ==
    [][/\ (is_recording /\ ~is_recording') <=> (Len(saves') = Len(saves) + 1)
       /\ Len(saves') \in {Len(saves), Len(saves) + 1}
       /\ \A i \in 1..Len(saves) :
            /\ saves'[i].frames = saves[i].frames
            /\ saves'[i].filename = saves[i].filename
       /\ Len(saves') = Len(saves) + 1 =>
            /\ saves'[Len(saves')].pc = "start"
            /\ saves'[Len(saves')].frames = Snapshot(frame_buffer)
       /\ (~is_recording /\ StopRecording) =>
            UNCHANGED <<is_recording, person_detected, saves>>]_vars

\* two sessions have been stopped
C17_Witness ==
    /\ ~is_recording
    /\ Len(saves) = 2
    /\ saves[1].frames # saves[2].frames

\* ------------------------------------------------------------------ C18
\* the step of a cap.read() that returns ret = False (lines 259-263)
C18_FailedReadStep == loop_pc = "read" /\ loop_pc' = "check"

\* C18: a failed read changes neither the frame buffer, the recording state,
\* recording_start_time, last_detection_time nor the last sample time, invokes
\* no detector and starts no save; it does not end the process or clear
\* running; and the loop is back at its head with no sleep outstanding, from
\* where its next step is another read while running is true.
C18_FailedReadNoEffect ==
    [][/\ C18_FailedReadStep =>
            /\ UNCHANGED <<frame_buffer, frames_read, session_vars,
                           loop_last_detection_time, saves, files>>
            /\ UNCHANGED <<running, pc_main, cap>>
            /\ sample_outcome' = "none" /\ ~detected'
            /\ sleep_until' <= clock'
       /\ (loop_pc = "check" /\ loop_pc' # "check") =>
            loop_pc' = IF running THEN "read" ELSE "exit"]_vars

\* a read has just failed during a session (the loop is at its head with no
\* sleep outstanding although its frame rate gives every iteration one)
C18_Witness ==
    /\ loop_pc = "check"
    /\ sleep_until = 0
    /\ SleepTicks(fps) > 0
    /\ frames_read >= 1
    /\ is_recording
    /\ Alive /\ running

\* ------------------------------------------------------------------ C19
\* C19: in every state, before and after initialize_camera, fps is positive and
\* the capacity of the frame buffer is fps * buffer_seconds for the current
\* fps (the default when the device reports 0 or less), and the buffer never
\* holds more than that.
C19_CapacityFollowsFps ==
    /\ fps > 0
    /\ buffer_size = fps * buffer_seconds
    /\ Len(frame_buffer) <= buffer_size
    /\ fps = DefaultFps \/ (fps \in ActualFpsChoices /\ cap # "none")

\* the device negotiated a rate other than the default and frames fill the
\* buffer made for it
C19_Witness ==
    /\ pc_main = "waiting"
    /\ fps # DefaultFps
    /\ Len(frame_buffer) = buffer_size

\* ------------------------------------------------------------------ C20
\* C20 as written: the clock readings of any two Recording->Idle transitions
\* are at least recording_after_seconds + detection_interval apart.
C20_StopsApartByInterval ==
    \A i, j \in 1..Len(saves) :
        i < j => saves[j].stop_clock - saves[i].stop_clock
                     >= PostEvent + DetectionInterval

\* C20 (amended): the clock readings of any two Recording->Idle transitions
\* are at least recording_after_seconds apart, so no two artifacts get the same
\* second-resolution file name and no two save_video executions write to the
\* same path.
C20_DistinctFilenames ==
    \A i, j \in 1..Len(saves) :
        i < j =>
            /\ saves[j].stop_clock - saves[i].stop_clock >= PostEvent
            /\ saves[i].filename # saves[j].filename
            /\ Filename(saves[i].stop_clock) = saves[i].filename

\* two stops exactly recording_after_seconds apart: the first was delayed by
\* a full detection interval after its tick's time reading
C20_Witness ==
    /\ Len(saves) = 2
    /\ saves[2].stop_clock - saves[1].stop_clock = PostEvent


====
